---- MODULE Spec2Model ----
(***************************************************************************)
(* Model of src/main.c: the PPM (P3) gradient generator.                   *)
(*                                                                         *)
(* main() prints three header lines and then, in a double loop over the    *)
(* rows j and the columns i, one pixel line "ir ig ib" whose channels are  *)
(* computed in double arithmetic and converted to int.                     *)
(*                                                                         *)
(* The double arithmetic is modelled bit-exactly (IEEE-754 binary64,       *)
(* round-to-nearest-even, every operation rounded to double) on            *)
(* mantissas held as little-endian sequences of 13-bit limbs, so that no  *)
(* intermediate value exceeds 31 bits.  All values that occur are          *)
(* non-negative, normal or zero, and far from the exponent limits.         *)
(***************************************************************************)
EXTENDS Integers, Sequences, FiniteSets

(***************************************************************************)
(* Program constants.                                                      *)
(***************************************************************************)
\* int image_width = 256;
image_width == 256

\* int image_height = 256;
image_height == 256

\* Significand width of the C type double (binary64), hidden bit included.
DBL_MANT_DIG == 53

(***************************************************************************)
(* binary64 arithmetic.                                                    *)
(* A double is [m |-> mantissa, e |-> exponent] with value m * 2^e, where  *)
(* m is either 0 or an integer in [2^52, 2^53), written as 5 limbs in base *)
(* 2^13, least significant first (the fifth limb is the hidden bit).       *)
(***************************************************************************)
LimbBits == (DBL_MANT_DIG - 1) \div 4

LimbBase == 2 ^ LimbBits

MantLimbs == (DBL_MANT_DIG - 1) \div LimbBits + 1

Zero == [m |-> <<0, 0, 0, 0, 0>>, e |-> 0]

IsZero(x) == x.m = <<0, 0, 0, 0, 0>>

\* The p with 2^p <= n/d < 2^(p+1), for integers n, d > 0.
RECURSIVE FloorLog2(_, _)
FloorLog2(n, d) ==
    IF n >= 2 * d THEN FloorLog2(n, 2 * d) + 1
    ELSE IF n < d THEN FloorLog2(2 * n, d) - 1
    ELSE 0

\* Long division in base 2^13: `count` further quotient limbs of r/D (r < D),
\* least significant first, and the remainder left over.
RECURSIVE DivLimbs(_, _, _)
DivLimbs(r, D, count) ==
    IF count = 0 THEN [q |-> <<>>, r |-> r]
    ELSE LET t    == r * LimbBase
             rest == DivLimbs(t % D, D, count - 1)
         IN  [q |-> Append(rest.q, t \div D), r |-> rest.r]

\* m + 1 on limbs, with carry.
RECURSIVE Increment(_)
Increment(m) ==
    IF m = <<>> THEN <<>>
    ELSE IF Head(m) + 1 < LimbBase THEN <<Head(m) + 1>> \o Tail(m)
    ELSE IF Len(m) = 1 THEN <<Head(m) + 1>>
    ELSE <<0>> \o Increment(Tail(m))

\* Round-to-nearest-even of a 53-bit mantissa m (times 2^e) whose discarded
\* part has first bit `half` and a non-zero remainder iff `sticky`.
RoundNearestEven(m, e, half, sticky) ==
    IF half /\ (sticky \/ m[1] % 2 = 1)
    THEN LET up == Increment(m)
         IN  IF up[MantLimbs] = 2
             THEN [m |-> <<0, 0, 0, 0, 1>>, e |-> e + 1]
             ELSE [m |-> up, e |-> e]
    ELSE [m |-> m, e |-> e]

\* The double nearest to n/d, for small integers n >= 0, d > 0: the value of
\* (double) n / d, both operands being exact doubles, and of a decimal
\* literal n/d.
DivDouble(n, d) ==
    IF n = 0 THEN Zero
    ELSE LET p  == FloorLog2(n, d)
             N  == IF p < 0 THEN n * 2 ^ (0 - p) ELSE n
             D  == IF p > 0 THEN d * 2 ^ p ELSE d
             dv == DivLimbs(N - D, D, MantLimbs - 1)
         IN  RoundNearestEven(Append(dv.q, 1), p - (DBL_MANT_DIG - 1),
                              2 * dv.r >= D, 2 * dv.r > D)

\* Column k (1-based) of the schoolbook product of two limb sequences.
RECURSIVE Column(_, _, _, _)
Column(a, b, k, s) ==
    IF s > Len(a) THEN 0
    ELSE (IF k + 1 - s >= 1 /\ k + 1 - s <= Len(b) THEN a[s] * b[k + 1 - s] ELSE 0)
         + Column(a, b, k, s + 1)

\* The exact product of two limb sequences, carries propagated, as
\* Len(a) + Len(b) limbs.
RECURSIVE MulLimbs(_, _, _, _)
MulLimbs(a, b, k, carry) ==
    IF k > Len(a) + Len(b) THEN <<>>
    ELSE LET t == Column(a, b, k, 1) + carry
         IN  <<t % LimbBase>> \o MulLimbs(a, b, k + 1, t \div LimbBase)

\* limbs div 2, limb by limb (the sequence keeps its length).
RECURSIVE Halve(_)
Halve(m) ==
    IF Len(m) = 1 THEN <<Head(m) \div 2>>
    ELSE <<Head(m) \div 2 + (m[2] % 2) * (LimbBase \div 2)>> \o Halve(Tail(m))

\* x * y rounded to double.
MulDouble(x, y) ==
    IF IsZero(x) \/ IsZero(y) THEN Zero
    ELSE LET P    == MulLimbs(x.m, y.m, 1, 0)
             low  == SubSeq(P, 1, MantLimbs - 1)
             high == SubSeq(P, MantLimbs, 2 * MantLimbs - 1)
             lowZ == \A k \in 1..(MantLimbs - 2) : low[k] = 0
             top  == low[MantLimbs - 1]
         IN  IF high[MantLimbs] = 1
             THEN RoundNearestEven(high, x.e + y.e + (DBL_MANT_DIG - 1),
                                   top >= LimbBase \div 2,
                                   ~lowZ \/ top % (LimbBase \div 2) # 0)
             ELSE RoundNearestEven(Halve(high), x.e + y.e + DBL_MANT_DIG,
                                   high[1] % 2 = 1,
                                   ~lowZ \/ top # 0)

\* The integer value of a limb sequence that fits an int.
RECURSIVE LimbsToInt(_)
LimbsToInt(m) ==
    IF m = <<>> THEN 0 ELSE Head(m) + LimbBase * LimbsToInt(Tail(m))

\* Conversion of a non-negative double below 2^13 to int: the fractional part
\* is discarded (truncation toward zero).
TruncToInt(x) ==
    IF IsZero(x) \/ 0 - x.e >= DBL_MANT_DIG THEN 0
    ELSE LET s == 0 - x.e
         IN  LimbsToInt(SubSeq(x.m, s \div LimbBits + 1, MantLimbs))
                 \div 2 ^ (s % LimbBits)

(***************************************************************************)
(* The computation of one pixel (main.c, lines 13-21).                     *)
(***************************************************************************)
\* Mutant: the literal 256.
Multiplier256 == DivDouble(256, 1)

\* The literal 255.999 of lines 17-19, as the compiler converts it.
Multiplier == DivDouble(255999, 1000)

\* The generators compared: the program's, and the two variants whose literal
\* is 255 and 256.
Variants == {"255", "256"}

Generators == {"255.999"} \cup Variants

\* The literal of the variant "255".
Variant255 == DivDouble(255, 1)

\* The literal of the variant "256".
Variant256 == DivDouble(256, 1)

MultiplierOf(g) ==
    CASE g = "255.999" -> Multiplier
      [] g = "255"     -> Variant255
      [] g = "256"     -> Variant256

\* Mutant: the ratio taken over the size, not over the last index.
RatioBySize(n, size) == DivDouble(n, size)

\* Mutant: the gradient flipped, (size-1 - n) / (size-1).
RatioFlipped(n, size) == DivDouble(size - 1 - n, size - 1)

\* double r = (double) i / (image_width-1);   (and g, with j and image_height)
Ratio(n, size) == DivDouble(n, size - 1)

\* Mutant: double b = 0.25;
BlueQuarter == DivDouble(1, 4)

\* double b = 0;
Blue == Zero

\* Mutant: the channel stored in 8 bits (unsigned char ir).
IntensityByte(c, ratio) == TruncToInt(MulDouble(c, ratio)) % 256

\* int ir = 255.999 * r;   the product is rounded to double, then converted.
Intensity(c, ratio) == TruncToInt(MulDouble(c, ratio))

\* ir for every column, ig for every row and ib, per generator: ir depends
\* on i alone, ig on j alone and ib on neither, so each is computed once and
\* looked up after.
RedTable ==
    [g \in Generators |->
        [n \in 0..(image_width - 1) |->
            Intensity(MultiplierOf(g), Ratio(n, image_width))]]

GreenTable ==
    [g \in Generators |->
        [n \in 0..(image_height - 1) |->
            Intensity(MultiplierOf(g), Ratio(n, image_height))]]

BlueTable == [g \in Generators |-> Intensity(MultiplierOf(g), Blue)]

\* Mutant: ig printed first, ir second.
ChannelsSwapped(g, ii, jj) ==
    <<GreenTable[g][jj], RedTable[g][ii], BlueTable[g]>>

\* The three ints passed to printf for pixel (ii, jj).
Channels(g, ii, jj) ==
    <<RedTable[g][ii], GreenTable[g][jj], BlueTable[g]>>

(***************************************************************************)
(* printf: the text of a line, without its newline.                        *)
(***************************************************************************)
Digit(d) ==
    CASE d = 0 -> "0" [] d = 1 -> "1" [] d = 2 -> "2" [] d = 3 -> "3"
      [] d = 4 -> "4" [] d = 5 -> "5" [] d = 6 -> "6" [] d = 7 -> "7"
      [] d = 8 -> "8" [] d = 9 -> "9"

\* %d of a non-negative int.
RECURSIVE Decimal(_)
Decimal(n) == IF n < 10 THEN Digit(n) ELSE Decimal(n \div 10) \o Digit(n % 10)

\* "%d %d ... %d" of args: the numbers in decimal, one space between.
RECURSIVE Printf(_)
Printf(args) ==
    IF Len(args) = 1 THEN Decimal(args[1])
    ELSE Decimal(args[1]) \o " " \o Printf(Tail(args))

\* A written line: its text and the ints that were formatted into it.
Line(text, args) == [text |-> text, args |-> args]

NoLine == Line("", <<>>)

\* printf("%d %d %d\n", ir, ig, ib);
PixelLine(g, ii, jj) ==
    LET c == Channels(g, ii, jj) IN Line(Printf(c), c)

(***************************************************************************)
(* main().  The output stream is held as the number of header and pixel    *)
(* lines written so far and the last line written; the variants run in     *)
(* lockstep on the same loop.                                              *)
(***************************************************************************)
VARIABLES pc, j, i, headerLines, pixelLines, line, variantLine, variantDiffered

vars == <<pc, j, i, headerLines, pixelLines, line, variantLine, variantDiffered>>

\* A pixel whose red or green ratio is 0.0 or 1.0.
Boundary(ii, jj) ==
    \/ ii \in {0, image_width - 1}
    \/ jj \in {0, image_height - 1}

Init ==
    /\ pc = "header1"
    /\ j = 0
    /\ i = 0
    /\ headerLines = 0
    /\ pixelLines = 0
    /\ line = NoLine
    /\ variantLine = [v \in Variants |-> NoLine]
    /\ variantDiffered = {}

WriteHeader(l) ==
    /\ line' = l
    /\ variantLine' = [v \in Variants |-> l]
    /\ headerLines' = headerLines + 1
    /\ UNCHANGED <<pixelLines, variantDiffered>>

\* printf("P3\n");
Header1 ==
    /\ pc = "header1"
    /\ WriteHeader(Line("P3", <<>>))
    /\ pc' = "header2"
    /\ UNCHANGED <<j, i>>

\* Mutant: the maximum channel value printed before the dimensions.
Header2MaxvalFirst ==
    /\ pc = "header2"
    /\ WriteHeader(Line("255", <<>>))
    /\ pc' = "header3"
    /\ UNCHANGED <<j, i>>

\* printf("%d %d\n", image_width, image_height);
Header2 ==
    /\ pc = "header2"
    /\ WriteHeader(LET a == <<image_width, image_height>> IN Line(Printf(a), a))
    /\ pc' = "header3"
    /\ UNCHANGED <<j, i>>

\* Mutant: the outer loop starts at int j = 1.
Header3FromRowOne ==
    /\ pc = "header3"
    /\ WriteHeader(Line("255", <<>>))
    /\ j' = 1
    /\ pc' = "outer"
    /\ UNCHANGED i

\* printf("255\n");  and the outer loop's initialisation, int j = 0.
Header3 ==
    /\ pc = "header3"
    /\ WriteHeader(Line("255", <<>>))
    /\ j' = 0
    /\ pc' = "outer"
    /\ UNCHANGED i

\* j < image_height holds: enter the row; int i = 0.
OuterStep ==
    /\ pc = "outer"
    /\ j < image_height
    /\ i' = 0
    /\ pc' = "inner"
    /\ UNCHANGED <<j, headerLines, pixelLines, line, variantLine, variantDiffered>>

\* j < image_height fails: main returns.
OuterExit ==
    /\ pc = "outer"
    /\ ~(j < image_height)
    /\ pc' = "done"
    /\ UNCHANGED <<j, i, headerLines, pixelLines, line, variantLine, variantDiffered>>

\* Mutant: the loop body computes r from j and g from i.
InnerStepTransposed ==
    /\ pc = "inner"
    /\ i < image_width
    /\ line' = PixelLine("255.999", j, i)
    /\ variantLine' = [v \in Variants |-> PixelLine(v, j, i)]
    /\ variantDiffered' =
           variantDiffered \cup
               {v \in Variants : Boundary(i, j) /\ variantLine'[v] # line'}
    /\ pixelLines' = pixelLines + 1
    /\ i' = i + 1
    /\ UNCHANGED <<pc, j, headerLines>>

\* i < image_width holds: the loop body, then ++i.
InnerStep ==
    /\ pc = "inner"
    /\ i < image_width
    /\ line' = PixelLine("255.999", i, j)
    /\ variantLine' = [v \in Variants |-> PixelLine(v, i, j)]
    /\ variantDiffered' =
           variantDiffered \cup
               {v \in Variants : Boundary(i, j) /\ variantLine'[v] # line'}
    /\ pixelLines' = pixelLines + 1
    /\ i' = i + 1
    /\ UNCHANGED <<pc, j, headerLines>>

\* i < image_width fails: the row is finished; ++j.
InnerExit ==
    /\ pc = "inner"
    /\ ~(i < image_width)
    /\ j' = j + 1
    /\ pc' = "outer"
    /\ UNCHANGED <<i, headerLines, pixelLines, line, variantLine, variantDiffered>>

Next ==
    \/ Header1
    \/ Header2
    \/ Header3
    \/ OuterStep
    \/ OuterExit
    \/ InnerStep
    \/ InnerExit

Spec == Init /\ [][Next]_vars

(***************************************************************************)
(* Properties.                                                             *)
(***************************************************************************)
\* The last line written is the pixel line of column i - 1 of row j: the
\* state right after the loop body and ++i.
PixelWritten == pc = "inner" /\ i > 0

\* The steps main still has to take: one per header line, image_width + 2 per
\* row (enter the row, its pixels, leave the row) and the final loop test.
StepsLeft ==
    LET row == image_width + 2
    IN  CASE pc = "header1" -> 3 + image_height * row + 1
          [] pc = "header2" -> 2 + image_height * row + 1
          [] pc = "header3" -> 1 + image_height * row + 1
          [] pc = "outer"   -> (image_height - j) * row + 1
          [] pc = "inner"   -> (image_height - j - 1) * row + (image_width - i) + 2
          [] pc = "done"    -> 0

\* C1: main terminates (it can take a step until it is done, and no step it
\* can take fails to lower a non-negative count of the steps left), and at
\* termination
\* the output holds exactly 3 header lines and exactly 65536 pixel lines.
C1_TerminatesWithAllLines ==
    /\ pc = "done" \/ ENABLED Next
    /\ StepsLeft >= 0
    /\ ~ENABLED (Next /\ ~(StepsLeft' < StepsLeft))
    /\ (pc = "done") => (headerLines = 3 /\ pixelLines = 65536)

C1_Witness == pc = "done" /\ headerLines = 3 /\ pixelLines = 65536

\* C2: the header lines are P3, then 256 256, then 255, in this order; all
\* three are written before the first pixel line and none after it.
C2_HeaderOrder ==
    /\ headerLines \in 0..3
    /\ (headerLines = 0) => (line = NoLine /\ pixelLines = 0)
    /\ (headerLines = 1) => (line.text = "P3" /\ pixelLines = 0 /\ pc = "header2")
    /\ (headerLines = 2) => (line.text = "256 256" /\ pixelLines = 0 /\ pc = "header3")
    /\ (headerLines = 3 /\ pixelLines = 0) => line.text = "255"
    /\ (pixelLines > 0) => (headerLines = 3 /\ Len(line.args) = 3)

C2_Witness == headerLines = 3 /\ pixelLines = 1 /\ Len(line.args) = 3

\* C3: the k-th pixel line (0-based) is the pixel of row k div 256 and column
\* k mod 256; the loop has written exactly the pixels before (i, j) in that
\* order, and all 65536 of them at the end.
C3_RowMajor ==
    /\ (pixelLines > 0) =>
           LET k == pixelLines - 1
           IN  line = PixelLine("255.999", k % 256, k \div 256)
    /\ (pc = "inner") => pixelLines = j * 256 + i
    /\ (pc = "outer") => pixelLines = j * 256
    /\ (pc = "done") => pixelLines = 256 * 256

C3_Witness == pc = "inner" /\ j = 1 /\ i = 1 /\ pixelLines = 257

\* C4: the red channel of pixel (i, j) is floor(i * 255999 / 255000), the
\* green channel floor(j * 255999 / 255000), the blue channel floor(0).
C4_FloorFormula ==
    PixelWritten =>
        line.args = <<((i - 1) * 255999) \div 255000,
                      (j * 255999) \div 255000,
                      (0 * 255999) \div 255000>>

C4_Witness == PixelWritten /\ i - 1 = 200 /\ j = 100

\* C5: every channel of every pixel line is in 0..255, also at ratio 1.0.
C5_ChannelRange ==
    (pixelLines > 0) => \A c \in 1..3 : line.args[c] \in 0..255

C5_Witness == PixelWritten /\ i - 1 = 255 /\ j = 255 /\ line.args[1] = 255

\* C6: the pixel lines at (0,0), (255,0), (0,255) and (128,128) read
\* 0 0 0, 255 0 0, 0 255 0 and 128 128 0.
C6_NamedPixels ==
    /\ (PixelWritten /\ i - 1 = 0 /\ j = 0) => line.text = "0 0 0"
    /\ (PixelWritten /\ i - 1 = 255 /\ j = 0) => line.text = "255 0 0"
    /\ (PixelWritten /\ i - 1 = 0 /\ j = 255) => line.text = "0 255 0"
    /\ (PixelWritten /\ i - 1 = 128 /\ j = 128) => line.text = "128 128 0"

C6_Witness == PixelWritten /\ i - 1 = 128 /\ j = 128

\* C7: within a row the red channel never decreases from one pixel line to
\* the next, and within a column the green channel never decreases from one
\* row to the next.
C7_Monotone ==
    /\ [][(PixelWritten /\ PixelWritten') => line'.args[1] >= line.args[1]]_vars
    /\ []((PixelWritten /\ j > 0) =>
              line.args[2] >= PixelLine("255.999", i - 1, j - 1).args[2])

C7_Witness ==
    /\ PixelWritten /\ i - 1 = 7 /\ j = 9
    /\ line.args[1] > PixelLine("255.999", i - 2, j).args[1]
    /\ line.args[2] > PixelLine("255.999", i - 1, j - 1).args[2]

\* C8: the blue channel of every pixel line is 0.
C8_BlueZero == (pixelLines > 0) => line.args[3] = 0

C8_Witness == pixelLines = 65536 /\ line.args[3] = 0

\* C9, as claimed: by the end of the run the variant with multiplier 255 and
\* the variant with multiplier 256 have each written a boundary pixel line
\* that differs from the program's, and a channel of ratio 1.0 of the 256
\* variant is 256.
C9_BothVariantsDiffer ==
    /\ (pc = "done") => variantDiffered = Variants
    /\ (PixelWritten /\ i - 1 = 255) => variantLine["256"].args[1] = 256

\* C9, amended: the variant with multiplier 256 differs from the program
\* exactly at the pixels with i = 255 or j = 255, where the channel of ratio
\* 1.0 is 256; the variant with multiplier 255 writes the same line as the
\* program at every pixel.
C9_Only256Differs ==
    /\ PixelWritten =>
           /\ variantLine["255"] = line
           /\ (variantLine["256"] # line) <=> (i - 1 = 255 \/ j = 255)
           /\ (i - 1 = 255) => variantLine["256"].args[1] = 256
           /\ (j = 255) => variantLine["256"].args[2] = 256
    /\ (pc = "done") => variantDiffered = {"256"}

C9_Witness ==
    /\ pc = "done"
    /\ variantLine["256"].text = "256 256 0"
    /\ variantLine["255"].text = "255 255 0"

\* Every value 0..255 occurs as the red channel of some column and as the
\* green channel of some row.
ChannelsCoverRange ==
    /\ {RedTable["255.999"][n] : n \in 0..255} = 0..255
    /\ {GreenTable["255.999"][n] : n \in 0..255} = 0..255

\* C10: the red channel of pixel (i, j) is i and the green channel is j, so
\* a row holds every red value 0..255 once and the line determines (i, j).
C10_Identity ==
    /\ PixelWritten => (line.args = <<i - 1, j, 0>>
                        /\ line.text = Printf(<<i - 1, j, 0>>))
    /\ ChannelsCoverRange

C10_Witness == PixelWritten /\ i - 1 = 254 /\ j = 3 /\ line.text = "254 3 0"

====
